---- MODULE Spec2Model ----
(***************************************************************************)
(* Persistence layer of the Prompt Library: the three SQLite relations     *)
(* (prompts, tags, prompt_tags) and the PromptRepository operations that   *)
(* read and write them (src/app.py).                                       *)
(***************************************************************************)
EXTENDS Integers, Sequences, FiniteSets, Bags, TLC

VARIABLES db, clock, last, calls

vars == <<db, clock, last, calls>>

(***************************************************************************)
(* Bounds of the model.                                                    *)
(***************************************************************************)
\* number of distinct prompt identifiers (client-chosen ids and uuid4 values)
MaxIds == 2
\* the clock runs through the seconds 1..MaxClock
MaxClock == 2
\* duplicate is applied to titles that carry fewer than MaxCopies suffixes
MaxCopies == 1
\* number of repository calls in one run
MaxCalls == 2

Ids == 1 .. MaxIds

(***************************************************************************)
(* Values.                                                                 *)
(***************************************************************************)
\* Python's None as the result of get_by_id / duplicate
None == [id |-> 0]

\* A timestamp is the second it was taken in: strftime's fixed-width
\* "%Y-%m-%d %H:%M:%S UTC" text orders exactly as the seconds do.  The empty
\* string (duplicate blanks the stamps with "") sorts before every stamp.
EmptyStamp == 0
\* a stamp a client wrote into a record by itself (it is later than any
\* second of the model's clock)
ClientStamp == MaxClock + 7

\* Two field profiles that differ in every column of the prompts relation.
Content(k) ==
    IF k = 1
    THEN [title |-> "Bug Triage", prompt_type |-> "standard",
          use_case |-> "", description |-> "", usage_notes |-> "",
          version |-> "v1.0", persona |-> "", context |-> "", task |-> "",
          style |-> "", variables |-> "",
          instructions |-> "Find the root cause."]
    ELSE [title |-> "Summary", prompt_type |-> "structured",
          use_case |-> "reading", description |-> "short digest",
          usage_notes |-> "paste the text", version |-> "v2.0",
          persona |-> "an editor", context |-> "a long report",
          task |-> "Summarize the document", style |-> "terse",
          variables |-> "{DOC}", instructions |-> "unused"]

Profiles == {1, 2}

\* a profile's title after n duplications
RECURSIVE CopyTitle(_, _)
CopyTitle(k, n) ==
    IF n = 0 THEN Content(k).title ELSE CopyTitle(k, n - 1) \o " (Copy)"

\* the titles the model lets duplicate extend
ShortTitles == {CopyTitle(k, n) : k \in Profiles, n \in 0 .. MaxCopies - 1}

\* The text columns of a prompt, as save writes them.
TextFields == {"title", "prompt_type", "use_case", "description",
               "usage_notes", "version", "persona", "context", "task",
               "style", "variables", "instructions"}

\* A Prompt object as a caller hands it to save: the dataclass fields.
Prompt(id, k, fav, stamp) ==
    [id |-> id, title |-> Content(k).title,
     prompt_type |-> Content(k).prompt_type,
     use_case |-> Content(k).use_case,
     description |-> Content(k).description,
     usage_notes |-> Content(k).usage_notes,
     version |-> Content(k).version, persona |-> Content(k).persona,
     context |-> Content(k).context, task |-> Content(k).task,
     style |-> Content(k).style, variables |-> Content(k).variables,
     instructions |-> Content(k).instructions, is_favorite |-> fav,
     created_at |-> stamp, last_modified |-> stamp, tags |-> <<>>]

\* The records callers pass to save.
\* (the standard record comes unflagged, the structured one flagged as
\* favorite)
InputPrompts ==
    {Prompt(id, k, k - 1, ClientStamp) : id \in Ids, k \in Profiles}

\* A tag map (Dict[str, List[str]]) is the sequence of its items, in the
\* dict's insertion order: <<category, list of names>>, distinct categories.
\* "expert" is a value of both Complexity and Audience in TAG_CATEGORIES.
TagMaps ==
    { <<>>,
      << <<"Complexity", <<"basic", "expert">> >> >>,
      << <<"Complexity", <<"expert", "expert">> >> >>,
      << <<"Complexity", <<>> >>, <<"Audience", <<"expert">> >> >>,
      << <<"Audience", <<"expert">> >>, <<"Complexity", <<"expert">> >> >> }

\* The texts handed to import_from_json, as json.loads reads them: a text
\* that does not parse, or the list of its items.  An item is a mapping with
\* the fields of an exported prompt (kind "record"), a mapping without a
\* title (kind "no_title"), or a value that is not a mapping ("not_mapping").
Item(kind, k, fav, id, T) ==
    [kind |-> kind, p |-> Prompt(id, k, fav, ClientStamp), tags |-> T]

Documents ==
    { [parses |-> FALSE, items |-> <<>>],
      [parses |-> TRUE,
       items |-> << Item("record", 2, 1, 1,
                         << <<"Complexity", <<"basic", "expert">> >> >>) >>],
      [parses |-> TRUE,
       items |-> << Item("record", 1, 0, 1,
                         << <<"Audience", <<"expert">> >> >>),
                    Item("no_title", 2, 0, 2, <<>>) >>],
      [parses |-> TRUE,
       items |-> << Item("record", 1, 0, 1, <<>>),
                    Item("record", 2, 1, 1,
                         << <<"Complexity", <<"basic", "expert">> >> >>) >>],
      [parses |-> TRUE,
       items |-> << Item("record", 1, 0, 1,
                         << <<"Audience", <<"expert">> >> >>),
                    Item("record", 2, 0, 1,
                         << <<"Complexity", <<"expert", "expert">> >> >>) >>] }

\* dict.get(category, []) and the dict's key set
Keys(T) == {T[i][1] : i \in DOMAIN T}
Get(T, c) == IF c \in Keys(T)
             THEN (T[CHOOSE i \in DOMAIN T : T[i][1] = c])[2]
             ELSE <<>>
Range(s) == {s[i] : i \in DOMAIN s}

\* Equality of two tag maps: the same categories, and under each category
\* the same set of values (the values of a category are an unordered set).
TagMapEq(T, U) == /\ Keys(T) = Keys(U)
                  /\ \A c \in Keys(T) : Range(Get(T, c)) = Range(Get(U, c))

\* for category, tags in tags_data.items(): for tag_name in tags: the
\* <<category, name>> pairs in iteration order
RECURSIVE Pairs(_)
Pairs(T) ==
    IF T = <<>> THEN <<>>
    ELSE [i \in DOMAIN T[1][2] |-> <<T[1][1], T[1][2][i]>>] \o Pairs(Tail(T))

(***************************************************************************)
(* The relations.  db.prompts maps the ids of the stored rows to the rows; *)
(* db.tags lists the tag rows in the order they were created (AUTOINCREMENT*)
(* ids only grow, so the position of a row stands for its id);             *)
(* db.prompt_tags is the bag of <<prompt_id, tag_id>> rows.                *)
(***************************************************************************)
EmptyDb == [prompts |-> <<>>, tags |-> <<>>, prompt_tags |-> EmptyBag]

\* SELECT id FROM prompts WHERE id = ?
Exists(d, id) == id \in DOMAIN d.prompts

\* the UPDATE with usage_notes left out of its SET list
UpdatePromptNoNotes(d, p, now) ==
    [d EXCEPT !.prompts[p.id] =
        [@ EXCEPT !.title = p.title, !.use_case = p.use_case,
                  !.description = p.description, !.version = p.version,
                  !.persona = p.persona, !.context = p.context,
                  !.task = p.task, !.style = p.style,
                  !.variables = p.variables,
                  !.prompt_type = p.prompt_type,
                  !.instructions = p.instructions,
                  !.last_modified = now]]

\* the UPDATE writing created_at along with last_modified
UpdatePromptRestamp(d, p, now) ==
    [d EXCEPT !.prompts[p.id] =
        [@ EXCEPT !.title = p.title, !.use_case = p.use_case,
                  !.description = p.description,
                  !.usage_notes = p.usage_notes, !.version = p.version,
                  !.persona = p.persona, !.context = p.context,
                  !.task = p.task, !.style = p.style,
                  !.variables = p.variables,
                  !.prompt_type = p.prompt_type,
                  !.instructions = p.instructions,
                  !.created_at = now, !.last_modified = now]]

\* UPDATE prompts SET title=?, ..., instructions=?, last_modified=? WHERE id=?
UpdatePrompt(d, p, now) ==
    [d EXCEPT !.prompts[p.id] =
        [@ EXCEPT !.title = p.title, !.use_case = p.use_case,
                  !.description = p.description,
                  !.usage_notes = p.usage_notes, !.version = p.version,
                  !.persona = p.persona, !.context = p.context,
                  !.task = p.task, !.style = p.style,
                  !.variables = p.variables,
                  !.prompt_type = p.prompt_type,
                  !.instructions = p.instructions,
                  !.last_modified = now]]

\* the INSERT writing the record's own favorite flag
InsertPromptWithFlag(d, p, now) ==
    LET row == [title |-> p.title, use_case |-> p.use_case,
                description |-> p.description,
                usage_notes |-> p.usage_notes, version |-> p.version,
                persona |-> p.persona, context |-> p.context,
                task |-> p.task, style |-> p.style,
                variables |-> p.variables, prompt_type |-> p.prompt_type,
                instructions |-> p.instructions,
                is_favorite |-> p.is_favorite,
                created_at |-> now, last_modified |-> now]
    IN [d EXCEPT !.prompts =
          [i \in DOMAIN d.prompts \cup {p.id} |->
              IF i = p.id THEN row ELSE d.prompts[i]]]

\* INSERT INTO prompts (...) VALUES (..., 0, current_time, current_time)
InsertPrompt(d, p, now) ==
    LET row == [title |-> p.title, use_case |-> p.use_case,
                description |-> p.description,
                usage_notes |-> p.usage_notes, version |-> p.version,
                persona |-> p.persona, context |-> p.context,
                task |-> p.task, style |-> p.style,
                variables |-> p.variables, prompt_type |-> p.prompt_type,
                instructions |-> p.instructions, is_favorite |-> 0,
                created_at |-> now, last_modified |-> now]
    IN [d EXCEPT !.prompts =
          [i \in DOMAIN d.prompts \cup {p.id} |->
              IF i = p.id THEN row ELSE d.prompts[i]]]

\* the DELETE left out: the new associations are merged into the old ones
DeletePromptTagsKeep(d, id) == d

\* DELETE FROM prompt_tags WHERE prompt_id = ?
DeletePromptTags(d, id) ==
    [d EXCEPT !.prompt_tags =
        [e \in {x \in DOMAIN d.prompt_tags : x[1] # id} |->
            d.prompt_tags[e]]]

\* the DELETE that removes no row
DeletePromptKeep(d, id) == d

\* DELETE FROM prompts WHERE id = ?   (foreign keys are not switched on for
\* the connection, so nothing cascades)
DeletePrompt(d, id) ==
    [d EXCEPT !.prompts = [i \in DOMAIN d.prompts \ {id} |-> d.prompts[i]]]

\* the update without its WHERE clause: every row gets the new flag
UpdateFavoriteEveryRow(d, id, new_status) ==
    [d EXCEPT !.prompts = [i \in DOMAIN d.prompts |->
                             [d.prompts[i] EXCEPT !.is_favorite = new_status]]]

\* UPDATE prompts SET is_favorite = ? WHERE id = ?
UpdateFavorite(d, id, new_status) ==
    IF Exists(d, id)
    THEN [d EXCEPT !.prompts[id].is_favorite = new_status]
    ELSE d

\* the tag rows with this name and category
TagIds(d, name, category) ==
    {i \in DOMAIN d.tags :
        d.tags[i].name = name /\ d.tags[i].category = category}

\* a plain INSERT into a tags relation without the UNIQUE constraint
InsertTagAlways(d, name, category) ==
    [d EXCEPT !.tags = Append(@, [name |-> name, category |-> category])]

\* INSERT OR IGNORE INTO tags (name, category): UNIQUE(name, category)
InsertOrIgnoreTag(d, name, category) ==
    IF TagIds(d, name, category) # {} THEN d
    ELSE [d EXCEPT !.tags =
            Append(@, [name |-> name, category |-> category])]

\* SELECT id FROM tags WHERE name = ? AND category = ?  .fetchone()[0]
SelectTagId(d, name, category) ==
    CHOOSE i \in TagIds(d, name, category) :
        \A j \in TagIds(d, name, category) : i <= j

\* INSERT INTO prompt_tags (prompt_id, tag_id): PRIMARY KEY (prompt_id,
\* tag_id) makes the statement raise IntegrityError when the row is there
LinkExists(d, id, tag_id) == BagIn(<<id, tag_id>>, d.prompt_tags)
InsertPromptTag(d, id, tag_id) ==
    [d EXCEPT !.prompt_tags = @ (+) SetToBag({<<id, tag_id>>})]

\* The loop of save over the tag map; it stops at the statement that raises.
RECURSIVE SaveTags(_, _, _)
SaveTags(d, id, pairs) ==
    IF pairs = <<>> THEN [db |-> d, raised |-> FALSE]
    ELSE LET d1 == InsertOrIgnoreTag(d, pairs[1][2], pairs[1][1])
             tag_id == SelectTagId(d1, pairs[1][2], pairs[1][1])
         IN IF LinkExists(d1, id, tag_id)
            THEN [db |-> d1, raised |-> TRUE]
            ELSE SaveTags(InsertPromptTag(d1, id, tag_id), id, Tail(pairs))

\* The statements of PromptRepository.save, in order, on the connection.
SaveBody(d, p, tags_data, now) ==
    LET d1 == IF Exists(d, p.id) THEN UpdatePrompt(d, p, now)
              ELSE InsertPrompt(d, p, now)
    IN SaveTags(DeletePromptTags(d1, p.id), p.id, Pairs(tags_data))

\* the connection committing whatever was written when the body raises
get_db_connection_commit(d, r) == r.db

\* with get_db_connection() as conn: commit when the body returns, rollback
\* and re-raise when it raises
get_db_connection(d, r) == IF r.raised THEN d ELSE r.db

\* dict[category].append(name), creating the list at the first use
DictAppend(T, c, v) ==
    IF c \in Keys(T)
    THEN [i \in DOMAIN T |->
            IF T[i][1] = c THEN <<c, Append(T[i][2], v)>> ELSE T[i]]
    ELSE Append(T, <<c, <<v>>>>)

RECURSIVE DictAppendTimes(_, _, _, _)
DictAppendTimes(T, c, v, n) ==
    IF n = 0 THEN T ELSE DictAppendTimes(DictAppend(T, c, v), c, v, n - 1)

\* the join without its WHERE pt.prompt_id = ?: every tag that any prompt
\* is linked to
RECURSIVE LoadTagsOfAll(_, _, _, _)
LoadTagsOfAll(d, id, i, acc) ==
    IF i > Len(d.tags) THEN acc
    ELSE LoadTagsOfAll(d, id, i + 1,
            DictAppendTimes(acc, d.tags[i].category, d.tags[i].name,
                            IF \E e \in BagToSet(d.prompt_tags) : e[2] = i
                            THEN 1 ELSE 0))

\* SELECT t.name, t.category FROM tags t JOIN prompt_tags pt ON t.id =
\* pt.tag_id WHERE pt.prompt_id = ?, folded into the tags dict.  SQLite walks
\* the primary-key index of prompt_tags, so the rows come by ascending tag id.
RECURSIVE LoadTags(_, _, _, _)
LoadTags(d, id, i, acc) ==
    IF i > Len(d.tags) THEN acc
    ELSE LoadTags(d, id, i + 1,
            DictAppendTimes(acc, d.tags[i].category, d.tags[i].name,
                            CopiesIn(<<id, i>>, d.prompt_tags)))

\* Prompt.from_dict(dict(row) + tags)
FromRow(id, row, tags) ==
    [id |-> id, title |-> row.title, prompt_type |-> row.prompt_type,
     use_case |-> row.use_case, description |-> row.description,
     usage_notes |-> row.usage_notes, version |-> row.version,
     persona |-> row.persona, context |-> row.context, task |-> row.task,
     style |-> row.style, variables |-> row.variables,
     instructions |-> row.instructions, is_favorite |-> row.is_favorite,
     created_at |-> row.created_at, last_modified |-> row.last_modified,
     tags |-> tags]

\* the SELECT without its WHERE clause: the first row of the relation
get_by_id_first(d, id) ==
    IF DOMAIN d.prompts = {} THEN None
    ELSE LET i == IF Exists(d, id) THEN id
                  ELSE CHOOSE j \in DOMAIN d.prompts : TRUE
         IN FromRow(i, d.prompts[i], LoadTags(d, i, 1, <<>>))

\* PromptRepository.get_by_id
get_by_id(d, id) ==
    IF ~Exists(d, id) THEN None
    ELSE FromRow(id, d.prompts[id], LoadTags(d, id, 1, <<>>))

\* PromptRepository.get_all: SELECT * FROM prompts ORDER BY title; the set of
\* the loaded records (their order is the Query Engine's concern)
get_all(d) == {get_by_id(d, id) : id \in DOMAIN d.prompts}

(***************************************************************************)
(* The state: the database file, the wall clock in seconds, the number of  *)
(* repository calls made, and the last call: its arguments, whether its id *)
(* was stored when it was made and the favorite flag it then had, whether  *)
(* it repeats the call made just before it (a delete of the same id; a     *)
(* toggle of the same stored id that was given the flag then stored), the  *)
(* parsed document of an import, and its outcome.                          *)
(***************************************************************************)
NoCall == [op |-> "none", id |-> 0, prompt |-> <<>>, tags |-> <<>>,
           current_status |-> 0, existed |-> FALSE, was_favorite |-> 0,
           again |-> FALSE, doc |-> <<>>, ret |-> "None",
           new_id |-> 0, count |-> 0]

\* The database file is kept from one session to the next (init_db creates
\* the relations only IF NOT EXISTS): a session starts on the empty store or
\* on what earlier calls left in it.  Here: nothing; one prompt, saved at
\* second 1 with tags of two categories and then made a favorite.
StoredBefore ==
    { EmptyDb,
      UpdateFavorite(
          SaveBody(EmptyDb, Prompt(1, 2, 1, ClientStamp),
                   << <<"Audience", <<"expert">> >>,
                      <<"Complexity", <<"expert">> >> >>, 1).db,
          1, 1) }

Init == /\ db \in StoredBefore
        /\ clock = 1
        /\ last = NoCall
        /\ calls = 0

\* one more repository call, within the bound
CanCall == calls < MaxCalls
Called == calls' = calls + 1

\* time passes
Tick == /\ clock < MaxClock
        /\ clock' = clock + 1
        /\ UNCHANGED <<db, last, calls>>

\* PromptRepository.save(prompt, tags_data)
Save(p, tags_data) ==
    CanCall /\
    LET r == SaveBody(db, p, tags_data, clock)
    IN /\ db' = get_db_connection(db, r)
       /\ last' = [NoCall EXCEPT !.op = "save", !.id = p.id,
                                 !.existed = Exists(db, p.id),
                                 !.prompt = <<p>>, !.tags = <<tags_data>>,
                                 !.ret = IF r.raised THEN "IntegrityError"
                                         ELSE "None"]
       /\ UNCHANGED clock /\ Called

\* delete leaving the associations to a cascade
DeleteBodyRowOnly(d, id) == DeletePrompt(d, id)

\* The statements of PromptRepository.delete, in order.
DeleteBody(d, id) == DeletePrompt(DeletePromptTags(d, id), id)

\* PromptRepository.delete(prompt_id)
Delete(id) ==
    /\ CanCall
    /\ db' = get_db_connection(db,
                [db |-> DeleteBody(db, id), raised |-> FALSE])
    /\ last' = [NoCall EXCEPT !.op = "delete", !.id = id,
                         !.existed = Exists(db, id),
                         !.again = (last.op = "delete" /\ last.id = id),
                         !.ret = "True"]
    /\ UNCHANGED clock /\ Called

\* PromptRepository.toggle_favorite(prompt_id, current_status)
ToggleFavorite(id, current_status) ==
    CanCall /\
    LET new_status == IF current_status # 0 THEN 0 ELSE 1
    IN /\ db' = get_db_connection(db,
                   [db |-> UpdateFavorite(db, id, new_status),
                    raised |-> FALSE])
       /\ last' = [NoCall EXCEPT !.op = "toggle_favorite", !.id = id,
                                 !.existed = Exists(db, id),
                                 !.was_favorite =
                                     IF Exists(db, id)
                                     THEN db.prompts[id].is_favorite ELSE 0,
                                 !.again = /\ last.op = "toggle_favorite"
                                           /\ last.id = id /\ last.existed
                                           /\ last.current_status =
                                                  last.was_favorite,
                                 !.current_status = current_status]
       /\ UNCHANGED clock /\ Called

\* the copy with the title left as it was
CopyOfSameTitle(original, new_id) ==
    [original EXCEPT !.id = new_id, !.created_at = EmptyStamp,
                     !.last_modified = EmptyStamp, !.is_favorite = 0]

\* the copy duplicate hands to save
CopyOf(original, new_id) ==
    [original EXCEPT !.id = new_id, !.title = @ \o " (Copy)",
                     !.created_at = EmptyStamp,
                     !.last_modified = EmptyStamp, !.is_favorite = 0]

\* PromptRepository.duplicate(prompt_id); uuid.uuid4() yields an identifier
\* that no stored prompt has
Duplicate(id) ==
    CanCall /\
    LET original == get_by_id(db, id)
    IN IF original = None
       THEN /\ last' = [NoCall EXCEPT !.op = "duplicate", !.id = id,
                                      !.existed = FALSE]
            /\ UNCHANGED <<db, clock>> /\ Called
       ELSE \E new_id \in Ids \ DOMAIN db.prompts :
              original.title \in ShortTitles /\
              LET copy == CopyOf(original, new_id)
                  r == SaveBody(db, copy, original.tags, clock)
              IN /\ db' = get_db_connection(db, r)
                 /\ last' = [NoCall EXCEPT !.op = "duplicate", !.id = id,
                               !.existed = TRUE,
                               !.ret = IF r.raised THEN "IntegrityError"
                                       ELSE "id",
                               !.new_id = IF r.raised THEN 0 ELSE new_id]
                 /\ UNCHANGED clock /\ Called

\* the loop saving every item under the id it came with
RECURSIVE ImportItemsKeepId(_, _, _, _, _)
ImportItemsKeepId(d, items, ids, now, count) ==
    IF items = <<>> THEN [db |-> d, raised |-> FALSE, count |-> count]
    ELSE IF items[1].kind # "record"
    THEN [db |-> d, raised |-> TRUE, count |-> count]
    ELSE LET r == SaveBody(d, items[1].p, items[1].tags, now)
         IN IF r.raised
            THEN [db |-> get_db_connection(d, r), raised |-> TRUE,
                  count |-> count]
            ELSE ImportItemsKeepId(get_db_connection(d, r), Tail(items),
                                   Tail(ids), now, count + 1)

\* The loop of import_from_json: every item is saved by a call of save of its
\* own; the loop ends at the first item that raises.
RECURSIVE ImportItems(_, _, _, _, _)
ImportItems(d, items, ids, now, count) ==
    IF items = <<>> THEN [db |-> d, raised |-> FALSE, count |-> count]
    ELSE IF items[1].kind # "record"
    THEN [db |-> d, raised |-> TRUE, count |-> count]
    ELSE LET prompt == [items[1].p EXCEPT !.id = ids[1]]
             r == SaveBody(d, prompt, items[1].tags, now)
         IN IF r.raised
            THEN [db |-> get_db_connection(d, r), raised |-> TRUE,
                  count |-> count]
            ELSE ImportItems(get_db_connection(d, r), Tail(items),
                             Tail(ids), now, count + 1)

\* the sequences of n different identifiers taken from S
FreshIds(S, n) ==
    {ids \in [1 .. n -> S] : \A i, j \in 1 .. n : ids[i] = ids[j] => i = j}

\* PromptRepository.import_from_json(json_str); uuid.uuid4() yields for each
\* item an identifier that no stored prompt has
Import(doc) ==
    CanCall /\
    IF ~doc.parses
    THEN /\ last' = [NoCall EXCEPT !.op = "import", !.doc = <<doc>>,
                                  !.ret = "JSONDecodeError"]
         /\ UNCHANGED <<db, clock>> /\ Called
    ELSE \E ids \in FreshIds(Ids \ DOMAIN db.prompts, Len(doc.items)) :
           LET r == ImportItems(db, doc.items, ids, clock, 0)
           IN /\ db' = r.db
              /\ last' = [NoCall EXCEPT !.op = "import", !.doc = <<doc>>,
                            !.ret = IF r.raised THEN "Exception"
                                    ELSE "count",
                            !.count = IF r.raised THEN 0 ELSE r.count]
              /\ UNCHANGED clock /\ Called

(***************************************************************************)
(* Export and import of the whole library.  The JSON text is modelled by   *)
(* the value json.loads reads from it: an object is the sequence of its    *)
(* members <<key, value>>, an array a sequence.  Strings, integers and     *)
(* nested objects and arrays are what json.dumps writes and json.loads     *)
(* reads back for the values of a Prompt.                                  *)
(***************************************************************************)
\* the fields of the dataclass, in the order asdict lists them
PromptFields ==
    <<"id", "title", "prompt_type", "use_case", "description", "usage_notes",
      "version", "persona", "context", "task", "style", "variables",
      "instructions", "is_favorite", "created_at", "last_modified", "tags">>

\* the defaults of the dataclass fields (id and title have none)
FieldDefaults ==
    [prompt_type |-> "structured", use_case |-> "", description |-> "",
     usage_notes |-> "", version |-> "v1.0", persona |-> "", context |-> "",
     task |-> "", style |-> "", variables |-> "", instructions |-> "",
     is_favorite |-> 0, created_at |-> EmptyStamp,
     last_modified |-> EmptyStamp, tags |-> <<>>]

\* Prompt.to_dict: asdict(self)
to_dict(prompt) ==
    [i \in 1 .. Len(PromptFields) |->
        <<PromptFields[i], prompt[PromptFields[i]]>>]

\* key in obj, obj[key]
HasKey(obj, key) == \E i \in 1 .. Len(obj) : obj[i][1] = key
Member(obj, key) == obj[CHOOSE i \in 1 .. Len(obj) : obj[i][1] = key][2]

\* Prompt.from_dict on an item of the document, after import_from_json has
\* popped its tags and replaced its id: keys that are no dataclass field are
\* dropped, missing fields take their defaults, and a missing title makes
\* the constructor raise TypeError.  The result is the item as ImportItems
\* takes it.
from_dict(obj) ==
    IF ~HasKey(obj, "title")
    THEN [kind |-> "no_title", p |-> None, tags |-> <<>>]
    ELSE [kind |-> "record",
          p |-> [f \in Range(PromptFields) |->
                   IF f = "tags" THEN <<>>
                   ELSE IF HasKey(obj, f) THEN Member(obj, f)
                   ELSE IF f = "id" THEN 0 ELSE FieldDefaults[f]],
          tags |-> IF HasKey(obj, "tags") THEN Member(obj, "tags") ELSE <<>>]

\* The place of a title of the model in SQLite's BINARY collation: a title
\* sorts before the same title with " (Copy)" appended, and every title of
\* profile 1 ("Bug Triage...") before every title of profile 2 ("Summary...").
TitleRank(t) ==
    CHOOSE r \in 0 .. (MaxCopies + 2) * 3 :
        \E k \in Profiles, n \in 0 .. MaxCopies + 1 :
            t = CopyTitle(k, n) /\ r = k * (MaxCopies + 2) + n

\* The orders in which SELECT * FROM prompts ORDER BY title can return the
\* stored rows: ascending by title, rows of equal title in any order.
RowOrders(d) ==
    {o \in FreshIds(DOMAIN d.prompts, Cardinality(DOMAIN d.prompts)) :
        \A i, j \in DOMAIN o :
            i < j => TitleRank(d.prompts[o[i]].title)
                        <= TitleRank(d.prompts[o[j]].title)}

\* PromptRepository.export_all, the rows coming in this order: the array of
\* the prompts' to_dict
export_all(d, order) ==
    [i \in 1 .. Len(order) |-> to_dict(get_by_id(d, order[i]))]

\* json.loads of a text that parses, every item read by from_dict
loads(data) ==
    [parses |-> TRUE, items |-> [i \in 1 .. Len(data) |-> from_dict(data[i])]]

\* The library is exported and the text imported into an empty store (a new
\* database file), which is the store in use from then on.  `last` keeps the
\* exported prompts and the document read back.
RoundTrip ==
    CanCall /\
    \E order \in RowOrders(db) :
      LET doc == loads(export_all(db, order))
      IN \E ids \in FreshIds(Ids, Len(doc.items)) :
           LET r == ImportItems(EmptyDb, doc.items, ids, clock, 0)
           IN /\ db' = r.db
              /\ last' = [NoCall EXCEPT !.op = "round_trip",
                            !.prompt = [i \in 1 .. Len(order) |->
                                          get_by_id(db, order[i])],
                            !.doc = <<doc>>,
                            !.ret = IF r.raised THEN "Exception"
                                    ELSE "count",
                            !.count = IF r.raised THEN 0 ELSE r.count]
              /\ UNCHANGED clock /\ Called

Next == \/ Tick
        \/ \E p \in InputPrompts, T \in TagMaps : Save(p, T)
        \/ \E id \in Ids : Delete(id)
        \/ \E id \in Ids, s \in {0, 1} : ToggleFavorite(id, s)
        \/ \E id \in Ids : Duplicate(id)
        \/ \E doc \in Documents : Import(doc)

Spec == Init /\ [][Next]_vars

\* a library is filled, prompts are made favorites, and it is moved to a new
\* database file
NextRoundTrip ==
    \/ Tick
    \/ \E p \in InputPrompts, T \in TagMaps : Save(p, T)
    \/ \E id \in Ids, s \in {0, 1} : ToggleFavorite(id, s)
    \/ RoundTrip

SpecRoundTrip == Init /\ [][NextRoundTrip]_vars

(***************************************************************************)
(* Strings of printable ASCII characters, compared as Python's str and     *)
(* SQLite's BINARY collation compare them: character by character, by code *)
(* point.                                                                  *)
(***************************************************************************)
\* the characters with the code points 32..95 and 97..126, in that order
LowChars ==
    " !\"#$%&'()*+,-./0123456789:;<=>?@ABCDEFGHIJKLMNOPQRSTUVWXYZ[\\]^_"
HighChars == "abcdefghijklmnopqrstuvwxyz{|}~"

\* the place of a character in a string that holds it
Place(c, chars) == CHOOSE i \in 1 .. Len(chars) : SubSeq(chars, i, i) = c

\* the i-th character of a string
CharAt(str, i) == SubSeq(str, i, i)

\* ord(c)
Ord(c) ==
    IF \E i \in 1 .. Len(LowChars) : SubSeq(LowChars, i, i) = c
    THEN 31 + Place(c, LowChars)
    ELSE 96 + Place(c, HighChars)

\* a < b for two strings
RECURSIVE StrLess(_, _)
StrLess(a, b) ==
    IF b = "" THEN FALSE
    ELSE IF a = "" THEN TRUE
    ELSE IF CharAt(a, 1) = CharAt(b, 1) THEN StrLess(Tail(a), Tail(b))
    ELSE Ord(CharAt(a, 1)) < Ord(CharAt(b, 1))

\* list.sort(key=...) on the pairs <<key, item>>: the pairs in ascending
\* order of their keys, pairs of equal keys in the order they came in
RECURSIVE InsertPair(_, _)
InsertPair(e, s) ==
    IF s = <<>> THEN <<e>>
    ELSE IF StrLess(e[1], s[1][1]) THEN <<e>> \o s
    ELSE <<s[1]>> \o InsertPair(e, Tail(s))

RECURSIVE SortPairs(_)
SortPairs(s) ==
    IF s = <<>> THEN <<>>
    ELSE InsertPair(s[Len(s)], SortPairs(SubSeq(s, 1, Len(s) - 1)))

\* list.sort() of a list of strings
SortStrings(list) ==
    LET sorted == SortPairs([i \in 1 .. Len(list) |-> <<list[i], list[i]>>])
    IN [i \in 1 .. Len(list) |-> sorted[i][2]]

(***************************************************************************)
(* The tag options offered by the forms: the registry and the stored tags. *)
(***************************************************************************)
\* TAG_CATEGORIES, three of its twenty categories: Complexity in full (the
\* one list the code keeps in its hand-authored order), the first four
\* values of Model Family (mixed case, not in code point order in the
\* source) and four values of Audience, in the order of the source.
TAG_CATEGORIES ==
    << <<"Complexity",
         <<"basic", "simple", "intermediate", "advanced", "expert">> >>,
       <<"Audience", <<"beginner", "child", "executive", "expert">> >>,
       <<"Model Family", <<"Claude", "DeepSeek", "Gemini", "GLM">> >> >>

\* The tag maps saved into the store the options are read from: values that
\* are not in the registry, a category that is not in the registry, and a
\* value of the registry.
CustomTagMaps ==
    { <<>>,
      << <<"Complexity", <<"expert">> >> >>,
      << <<"Complexity", <<"trivial", "brutal">> >>,
         <<"Model Family", <<"claude", "Falcon">> >>,
         <<"Team", <<"red">> >>,
         <<"Audience", <<"expert">> >> >> }

\* SELECT name, category FROM tags ORDER BY name (rows of the same name, in
\* different categories, in the order of their ids)
TagsByName(d) ==
    LET sorted == SortPairs([i \in 1 .. Len(d.tags) |->
                               <<d.tags[i].name, d.tags[i]>>])
    IN [i \in 1 .. Len(d.tags) |-> sorted[i][2]]

\* the loop over db_tags: a stored name is appended to the list of its
\* category when the registry has the category and the list lacks the name
RECURSIVE AppendStored(_, _)
AppendStored(categorized_tags, db_tags) ==
    IF db_tags = <<>> THEN categorized_tags
    ELSE LET tag == db_tags[1]
         IN AppendStored(
              [i \in 1 .. Len(categorized_tags) |->
                 IF /\ categorized_tags[i][1] = tag.category
                    /\ tag.name \notin Range(categorized_tags[i][2])
                 THEN <<categorized_tags[i][1],
                        Append(categorized_tags[i][2], tag.name)>>
                 ELSE categorized_tags[i]],
              Tail(db_tags))

\* every list sorted, the one of Complexity too
SortListsAll(categorized_tags) ==
    [i \in 1 .. Len(categorized_tags) |->
        <<categorized_tags[i][1], SortStrings(categorized_tags[i][2])>>]

\* the closing loop: every list but the one of Complexity is sorted
SortLists(categorized_tags) ==
    [i \in 1 .. Len(categorized_tags) |->
        IF categorized_tags[i][1] # "Complexity"
        THEN <<categorized_tags[i][1], SortStrings(categorized_tags[i][2])>>
        ELSE categorized_tags[i]]

\* get_all_tags_by_category()
get_all_tags_by_category(d) ==
    SortLists(AppendStored(TAG_CATEGORIES, TagsByName(d)))

\* a page reads the tag options; `last` keeps them
TagOptions ==
    /\ CanCall
    /\ last' = [NoCall EXCEPT !.op = "get_all_tags_by_category",
                              !.tags = <<get_all_tags_by_category(db)>>]
    /\ UNCHANGED <<db, clock>> /\ Called

\* prompts are saved with tags of the user's own, deleted, and the options
\* read
NextTagOptions ==
    \/ Tick
    \/ \E p \in InputPrompts, T \in CustomTagMaps : Save(p, T)
    \/ \E id \in Ids : Delete(id)
    \/ TagOptions

SpecTagOptions == Init /\ [][NextTagOptions]_vars

(***************************************************************************)
(* The library page: the collection get_all returned goes through the      *)
(* favorites filter, the tag filters, the search and the sort.             *)
(***************************************************************************)
\* prompts shown to the page at once
MaxShown == 2

\* str.lower() of a character and of a string (ASCII)
LowerChar(c) ==
    IF Ord(c) >= Ord("A") /\ Ord(c) <= Ord("Z")
    THEN CharAt(HighChars, Ord(c) - Ord("A") + 1)
    ELSE c

RECURSIVE Lower(_)
Lower(str) ==
    IF str = "" THEN "" ELSE LowerChar(CharAt(str, 1)) \o Lower(Tail(str))

\* needle in hay
Contains(hay, needle) ==
    \E i \in 0 .. Len(hay) - Len(needle) :
        SubSeq(hay, i + 1, i + Len(needle)) = needle

\* the list reversed
Reverse(s) == [i \in 1 .. Len(s) |-> s[Len(s) + 1 - i]]

\* a timestamp as save writes it, of the given day; day 0 is no stamp ("")
Stamp(day) ==
    IF day = 0 THEN ""
    ELSE "2024-01-0" \o CharAt("123456789", day) \o " 09:30:00 UTC"

\* A stored prompt as get_all loads it: the one text field `where` holds
\* `text`, the other content fields are empty.
Card(id, title, where, text, T, fav, created, modified) ==
    [f \in Range(PromptFields) |->
        IF f = "id" THEN id
        ELSE IF f = "title" THEN title
        ELSE IF f = "prompt_type"
             THEN IF where = "instructions" THEN "standard" ELSE "structured"
        ELSE IF f = "version" THEN "v1.0"
        ELSE IF f = "is_favorite" THEN fav
        ELSE IF f = "created_at" THEN Stamp(created)
        ELSE IF f = "last_modified" THEN Stamp(modified)
        ELSE IF f = "tags" THEN T
        ELSE IF f = where THEN text ELSE ""]

\* The stored prompts the page is given: titles that differ only in case,
\* the word "bug" in each text field in turn (and in a tag), tag maps of one
\* and of two categories, favorites and others, different stamps and none.
Cards ==
    { Card("p1", "Bug", "title", "", <<>>, 1, 1, 9),
      Card("p2", "a", "use_case", "debug it",
           << <<"Complexity", <<"basic">> >> >>, 0, 2, 8),
      Card("p3", "A", "description", "BUGS",
           << <<"Complexity", <<"basic", "expert">> >> >>, 1, 3, 7),
      Card("p4", "b", "instructions", "bug",
           << <<"Audience", <<"expert">> >>,
              <<"Complexity", <<"basic">> >> >>, 0, 4, 6),
      Card("p5", "B", "task", "bug",
           << <<"Audience", <<"expert">> >> >>, 1, 5, 5),
      Card("p6", "c", "persona", "bug",
           << <<"Complexity", <<"expert">> >> >>, 0, 6, 6),
      Card("p7", "C", "context", "bug", <<>>, 1, 7, 8),
      Card("p8", "d", "style", "bug", <<>>, 0, 0, 0),
      Card("p9", "D", "variables", "bug", <<>>, 0, 8, 9),
      Card("p10", "e", "usage_notes", "bug", <<>>, 0, 9, 9),
      Card("p11", "E", "title", "",
           << <<"Complexity", <<"bug", "expert">> >> >>, 0, 1, 1) }

\* The lists get_all can return: up to MaxShown different stored prompts in
\* ascending order of title (SELECT * FROM prompts ORDER BY title).
Collections ==
    UNION { {c \in [1 .. n -> Cards] :
               \A i, j \in 1 .. n :
                  i < j => /\ c[i] # c[j]
                           /\ ~StrLess(c[j].title, c[i].title)} :
            n \in 0 .. MaxShown }

\* what the user typed into the search bar
Queries == {"", " ", "bug", "BuG", "expert"}

\* What render_tag_filters returns: a list of selected values for every
\* category, in the order of its tabs (here for the three categories of
\* the registry's excerpt).
TagFilter(family, audience, complexity) ==
    << <<"Model Family", family>>, <<"Audience", audience>>,
       <<"Complexity", complexity>> >>

TagFilters ==
    { TagFilter(<<>>, <<>>, <<>>),
      TagFilter(<<>>, <<>>, <<"basic">>),
      TagFilter(<<>>, <<>>, <<"expert", "basic">>),
      TagFilter(<<>>, <<"expert">>, <<>>),
      TagFilter(<<>>, <<"expert">>, <<"basic">>),
      TagFilter(<<"Claude">>, <<>>, <<"expert">>) }

SortOptions == {"Title (A-Z)", "Title (Z-A)", "Newest", "Oldest"}

\* the favorites filter
FavoritesStage(prompts, show_favorites) ==
    IF show_favorites
    THEN SelectSeq(prompts, LAMBDA p : p.is_favorite = 1)
    ELSE prompts

\* the tag filters keeping a prompt that has any one of the selected values
RECURSIVE TagStageAny(_, _)
TagStageAny(prompts, selected_tags) ==
    IF selected_tags = <<>> THEN prompts
    ELSE LET category == selected_tags[1][1]
             tags == selected_tags[1][2]
         IN TagStageAny(
              IF tags # <<>>
              THEN SelectSeq(prompts,
                     LAMBDA p : /\ p.tags # <<>>
                                /\ Range(tags) \cap
                                      Range(Get(p.tags, category)) # {})
              ELSE prompts,
              Tail(selected_tags))

\* the tag filters: one pass over the list for every category whose
\* selection is not empty
RECURSIVE TagStage(_, _)
TagStage(prompts, selected_tags) ==
    IF selected_tags = <<>> THEN prompts
    ELSE LET category == selected_tags[1][1]
             tags == selected_tags[1][2]
         IN TagStage(
              IF tags # <<>>
              THEN SelectSeq(prompts,
                     LAMBDA p : /\ p.tags # <<>>
                                /\ Range(tags) \subseteq
                                      Range(Get(p.tags, category)))
              ELSE prompts,
              Tail(selected_tags))

\* the search filter
SearchStage(prompts, search_query) ==
    IF search_query # ""
    THEN LET query == Lower(search_query)
         IN SelectSeq(prompts,
              LAMBDA p : \/ Contains(Lower(p.title), query)
                         \/ Contains(Lower(p.use_case), query)
                         \/ Contains(Lower(p.description), query)
                         \/ Contains(Lower(p.instructions), query)
                         \/ Contains(Lower(p.task), query)
                         \/ Contains(Lower(p.persona), query)
                         \/ Contains(Lower(p.context), query))
    ELSE prompts

\* list.sort(key=...): the prompts in ascending order of the keys
SortByKeys(prompts, keys) ==
    LET sorted == SortPairs([i \in 1 .. Len(prompts) |->
                               <<keys[i], prompts[i]>>])
    IN [i \in 1 .. Len(prompts) |-> sorted[i][2]]

\* list.sort(key=..., reverse=True): descending order of the keys, prompts
\* of equal keys in the order they came in
SortByKeysReverse(prompts, keys) ==
    Reverse(SortByKeys(Reverse(prompts), Reverse(keys)))

\* sort(key=lambda p: p.title.lower())
SortTitleAZ(prompts) ==
    SortByKeys(prompts, [i \in 1 .. Len(prompts) |-> Lower(prompts[i].title)])

\* the descending sort on the titles as they are written
SortTitleZAExact(prompts) ==
    SortByKeysReverse(prompts, [i \in 1 .. Len(prompts) |-> prompts[i].title])

\* sort(key=lambda p: p.title.lower(), reverse=True)
SortTitleZA(prompts) ==
    SortByKeysReverse(prompts,
                      [i \in 1 .. Len(prompts) |-> Lower(prompts[i].title)])

\* the sort
SortStage(prompts, sort_option) ==
    IF sort_option = "Title (A-Z)" THEN SortTitleAZ(prompts)
    ELSE IF sort_option = "Title (Z-A)" THEN SortTitleZA(prompts)
    ELSE IF sort_option = "Newest"
    THEN SortByKeysReverse(prompts, [i \in 1 .. Len(prompts) |->
                                       prompts[i].last_modified])
    ELSE SortByKeys(prompts, [i \in 1 .. Len(prompts) |->
                                prompts[i].created_at])

\* The page is about to be rendered: what get_all returned and what the
\* widgets hold.
Request(all_prompts, search_query, show_favorites, selected_tags, sort_option) ==
    [op |-> "request", all_prompts |-> all_prompts,
     search_query |-> search_query, show_favorites |-> show_favorites,
     selected_tags |-> selected_tags, sort_option |-> sort_option,
     favorites |-> <<>>, tagged |-> <<>>, found |-> <<>>, ret |-> <<>>]

InitLibrary ==
    /\ db = EmptyDb /\ clock = 1 /\ calls = 0
    /\ last \in {Request(c, q, f, T, o) :
                    c \in Collections, q \in Queries, f \in BOOLEAN,
                    T \in TagFilters, o \in SortOptions}

\* render_library_page(): `last` keeps the list after every stage; ret is
\* the list of cards shown
render_library_page ==
    /\ last.op = "request"
    /\ LET favorites == FavoritesStage(last.all_prompts, last.show_favorites)
           tagged == TagStage(favorites, last.selected_tags)
           found == SearchStage(tagged, last.search_query)
       IN last' = [last EXCEPT !.op = "render_library_page",
                               !.favorites = favorites, !.tagged = tagged,
                               !.found = found,
                               !.ret = SortStage(found, last.sort_option)]
    /\ UNCHANGED <<db, clock>> /\ Called

SpecLibrary == InitLibrary /\ [][render_library_page]_vars

(***************************************************************************)
(* The edit page: the form of a new prompt or of the selected one, and its *)
(* submission.                                                             *)
(***************************************************************************)
SINGLE_VALUE_CATEGORIES == {"Complexity", "Abstraction Level", "Status"}

\* str.strip() of a text with blanks
RECURSIVE Strip(_)
Strip(str) ==
    IF str = "" THEN ""
    ELSE IF CharAt(str, 1) = " " THEN Strip(Tail(str))
    ELSE IF CharAt(str, Len(str)) = " "
    THEN Strip(SubSeq(str, 1, Len(str) - 1))
    ELSE str

\* what the title input can hold on submission
FormTitles == {"", " ", "Plan", " Plan "}

\* the categories of the registry's excerpt, in the order of the form's tabs
FormCategories == <<"Complexity", "Model Family", "Audience">>

\* What the multiselects of the form can hold on submission: for every
\* category the list of the options picked.
FormSelections ==
    { [Complexity |-> <<>>, Audience |-> <<>>],
      [Complexity |-> <<"basic">>, Audience |-> <<"expert">>],
      [Complexity |-> <<"expert">>, Audience |-> <<"beginner", "expert">>],
      [Complexity |-> <<"basic", "expert">>, Audience |-> <<>>] }

\* the list picked for a category
Picked(selection, category) ==
    IF category = "Complexity" THEN selection.Complexity
    ELSE IF category = "Audience" THEN selection.Audience
    ELSE <<>>

\* tags_data: one multiselect for every category of the tabs that the tag
\* options have
FormTags(all_tags_by_cat, selection) ==
    LET shown == SelectSeq(FormCategories,
                           LAMBDA cat : cat \in Keys(all_tags_by_cat))
    IN [i \in 1 .. Len(shown) |-> <<shown[i], Picked(selection, shown[i])>>]

\* The Prompt the form builds: the texts of profile k in the inputs of the
\* chosen type, the inputs of the other type left empty, no favorite flag
\* and no stamps.
FormPrompt(id, title, k) ==
    LET structured == Content(k).prompt_type = "structured"
    IN [Prompt(id, k, 0, EmptyStamp) EXCEPT
          !.title = Strip(title),
          !.persona = IF structured THEN @ ELSE "",
          !.context = IF structured THEN @ ELSE "",
          !.task = IF structured THEN @ ELSE "",
          !.style = IF structured THEN @ ELSE "",
          !.variables = IF structured THEN @ ELSE "",
          !.instructions = IF structured THEN "" ELSE @]

\* render_edit_page() with the form submitted: selected is the id the
\* session holds (0 for none); a prompt that is not stored is saved under
\* a new uuid4
EditPage(selected, title, k, selection) ==
    CanCall /\
    \E all_tags_by_cat \in {get_all_tags_by_category(db)} :
    \E tags_data \in {FormTags(all_tags_by_cat, selection)} :
    LET prompt_to_edit == IF selected = 0 THEN None
                          ELSE get_by_id(db, selected)
    IN /\ \A e \in Range(tags_data) :
             Range(e[2]) \subseteq Range(Get(all_tags_by_cat, e[1]))
       /\ IF Strip(title) = ""
          THEN /\ last' = [NoCall EXCEPT !.op = "edit", !.id = selected,
                             !.existed = prompt_to_edit # None,
                             !.ret = "Title is required"]
               /\ UNCHANGED <<db, clock>> /\ Called
          ELSE \E id \in IF prompt_to_edit # None THEN {selected}
                          ELSE Ids \ DOMAIN db.prompts :
                 LET prompt == FormPrompt(id, title, k)
                     r == SaveBody(db, prompt, tags_data, clock)
                 IN /\ db' = get_db_connection(db, r)
                    /\ last' = [NoCall EXCEPT !.op = "edit", !.id = id,
                                  !.prompt = <<prompt>>,
                                  !.tags = <<tags_data>>,
                                  !.existed = prompt_to_edit # None,
                                  !.was_favorite =
                                      IF prompt_to_edit # None
                                      THEN prompt_to_edit.is_favorite ELSE 0,
                                  !.ret = IF r.raised THEN "IntegrityError"
                                          ELSE "saved"]
                    /\ UNCHANGED clock /\ Called

\* prompts are added and edited through the form and made favorites
NextEdit ==
    \/ Tick
    \/ \E selected \in {0} \cup Ids, title \in FormTitles, k \in Profiles,
          selection \in FormSelections :
          EditPage(selected, title, k, selection)
    \/ \E id \in Ids, s \in {0, 1} : ToggleFavorite(id, s)

SpecEdit == Init /\ [][NextEdit]_vars

\* Every repository call, and the edit form; records are saved without
\* tags and the form is submitted as a standard prompt with nothing picked
\* (the seeded prompt is structured and has tags).
NextFavorite ==
    \/ Tick
    \/ \E p \in InputPrompts : Save(p, <<>>)
    \/ \E id \in Ids : Delete(id)
    \/ \E id \in Ids, s \in {0, 1} : ToggleFavorite(id, s)
    \/ \E id \in Ids : Duplicate(id)
    \/ \E doc \in Documents : Import(doc)
    \/ \E selected \in {0} \cup Ids, title \in {" ", " Plan "} :
          EditPage(selected, title, 1, [Complexity |-> <<>>, Audience |-> <<>>])

SpecFavorite == Init /\ [][NextFavorite]_vars

(***************************************************************************)
(* The text a prompt card copies to the clipboard.                         *)
(***************************************************************************)
\* The prompts whose text is copied: of either type, every content field
\* empty (the dataclass default) or holding a text, one of them of two lines.
CopyPrompts ==
    {[prompt_type |-> t, instructions |-> i, persona |-> p, context |-> c,
      task |-> k, style |-> y, variables |-> v] :
        t \in {"standard", "structured"},
        i \in {"", "Find the root cause."},
        p \in {"", "an editor"},
        c \in {"", "a long report\nof last year"},
        k \in {"", "Summarize the document"},
        y \in {"", "terse"},
        v \in {"", "{DOC}"}}

\* "sep".join(parts)
RECURSIVE Join(_, _)
Join(sep, parts) ==
    IF parts = <<>> THEN ""
    ELSE IF Len(parts) = 1 THEN parts[1]
    ELSE parts[1] \o sep \o Join(sep, Tail(parts))

\* if text: parts.append(f"### HEADER\n{text}")
AppendSection(parts, header, text) ==
    IF text # "" THEN Append(parts, "### " \o header \o "\n" \o text)
    ELSE parts

\* the five sections appended whether or not the field holds a text
AllSections(self) ==
    << "### PERSONA\n" \o self.persona, "### CONTEXT\n" \o self.context,
       "### TASK\n" \o self.task, "### STYLE\n" \o self.style,
       "### VARIABLES\n" \o self.variables >>

\* parts after the five tests of get_copy_text
SectionsOf(self) ==
    AppendSection(
      AppendSection(
        AppendSection(
          AppendSection(
            AppendSection(<<>>, "PERSONA", self.persona),
            "CONTEXT", self.context),
          "TASK", self.task),
        "STYLE", self.style),
      "VARIABLES", self.variables)

\* Prompt.get_copy_text()
get_copy_text(self) ==
    IF self.prompt_type = "standard" THEN self.instructions
    ELSE Join("\n\n---\n\n", SectionsOf(self))

InitCopy ==
    /\ db = EmptyDb /\ clock = 1 /\ calls = 0
    /\ last \in {[op |-> "card", prompt |-> p, ret |-> ""] : p \in CopyPrompts}

\* the card of a prompt offers its copy text; `last` keeps the text
CopyText ==
    /\ last.op = "card"
    /\ last' = [last EXCEPT !.op = "get_copy_text",
                            !.ret = get_copy_text(last.prompt)]
    /\ UNCHANGED <<db, clock>> /\ Called

SpecCopy == InitCopy /\ [][CopyText]_vars

(***************************************************************************)
(* Properties.                                                             *)
(***************************************************************************)
TypeOK == /\ clock \in 1 .. MaxClock
          /\ calls \in 0 .. MaxCalls
          /\ DOMAIN db.prompts \subseteq Ids

\* the last call was a save that returned
SaveReturned == last.op = "save" /\ last.ret = "None"
\* the record and the tag map of the last save
SavedPrompt == last.prompt[1]
SavedTags == last.tags[1]
\* what load_by_id gives for the id of the last call
Loaded == get_by_id(db, last.id)

\* a tag map without the categories whose list is empty
WithoutEmpty(T) == SelectSeq(T, LAMBDA e : e[2] # <<>>)

\* C1 as the spec states it: after save(prompt, T) returns,
\* load_by_id(id).tags equals T, for every tag map T.
C1_TagsEqualSaved ==
    SaveReturned => TagMapEq(Loaded.tags, SavedTags)

\* C1, amended: after save(prompt, T) returns, load_by_id(id).tags has
\* exactly the categories of T whose list is not empty, each with exactly
\* the values T lists for it and none twice, whatever the prompt carried
\* before; saving the empty map leaves the prompt with no tags.
C1_TagsReplaced ==
    SaveReturned =>
        /\ TagMapEq(Loaded.tags, WithoutEmpty(SavedTags))
        /\ \A c \in Keys(Loaded.tags) :
              Len(Get(Loaded.tags, c)) = Cardinality(Range(Get(Loaded.tags, c)))
        /\ (SavedTags = <<>> => Loaded.tags = <<>>)

\* a save whose map has an empty category and a filled one returned, in a
\* store that holds tag rows the saved prompt is not linked to
C1_Witness ==
    /\ SaveReturned
    /\ \E i \in DOMAIN SavedTags : SavedTags[i][2] = <<>>
    /\ Loaded.tags # <<>>
    /\ \E t \in DOMAIN db.tags : ~BagIn(<<last.id, t>>, db.prompt_tags)

\* C2 as the spec states it: save(P) then load_by_id(P.id) gives P in every
\* field, is_favorite included, except created_at and last_modified.
C2_AllFieldsRoundTrip ==
    SaveReturned =>
        /\ Loaded.id = SavedPrompt.id
        /\ \A f \in TextFields \cup {"is_favorite"} : Loaded[f] = SavedPrompt[f]

\* C2, amended: save(P) then load_by_id(P.id) gives P in the id and in every
\* text field (title, prompt_type, use_case, description, usage_notes,
\* version and the six content fields); created_at, last_modified and
\* is_favorite are the store's.
C2_TextFieldsRoundTrip ==
    SaveReturned =>
        /\ Loaded.id = SavedPrompt.id
        /\ \A f \in TextFields : Loaded[f] = SavedPrompt[f]

\* a save of a record flagged as favorite returned for a prompt that was
\* stored earlier, and the stored flag is not the record's
C2_Witness ==
    /\ SaveReturned
    /\ last.existed
    /\ Loaded.created_at < Loaded.last_modified
    /\ SavedPrompt.is_favorite = 1 /\ Loaded.is_favorite = 0

\* this step is a repository call
IsCall == calls' # calls

StampsOrdered ==
    \A id \in DOMAIN db.prompts :
        /\ db.prompts[id].created_at <= db.prompts[id].last_modified
        /\ db.prompts[id].created_at \in 1 .. clock
        /\ db.prompts[id].last_modified \in 1 .. clock

CreatedAtKept ==
    \A id \in DOMAIN db.prompts \cap DOMAIN db'.prompts :
        db'.prompts[id].created_at = db.prompts[id].created_at

InsertedNow ==
    \A id \in DOMAIN db'.prompts \ DOMAIN db.prompts :
        /\ db'.prompts[id].created_at = clock'
        /\ db'.prompts[id].last_modified = clock'

SavedNow ==
    (IsCall /\ last'.op = "save" /\ last'.ret = "None") =>
        db'.prompts[last'.id].last_modified = clock'

\* C3: in every step a prompt that stays stored keeps its created_at, a
\* prompt that enters the store gets created_at = last_modified = the
\* store's current time, and a save that returns leaves last_modified at the
\* current time; in every state each stored prompt has created_at <=
\* last_modified, both times the store's clock has shown (never the
\* client's value).
C3_Timestamps ==
    /\ []StampsOrdered
    /\ [][CreatedAtKept /\ InsertedNow /\ SavedNow]_vars

\* a stored prompt was saved again at a later second than it was created
C3_Witness ==
    /\ SaveReturned
    /\ last.existed
    /\ SavedPrompt.created_at # Loaded.created_at
    /\ Loaded.created_at < Loaded.last_modified
    /\ Loaded.last_modified = clock

\* C4: a save that raises leaves the store as it was before the call: the
\* row is neither inserted nor updated, no association of the prompt is
\* removed and no new tag row remains.
C4_SaveAllOrNothing ==
    [][(IsCall /\ last'.op = "save" /\ last'.ret = "IntegrityError")
         => db' = db]_vars

\* a save with new field values and a value listed twice raised for a stored
\* prompt that has tags; the row, its tags and the tags relation are the old
\* ones
C4_Witness ==
    /\ last.op = "save" /\ last.ret = "IntegrityError"
    /\ last.existed
    /\ Loaded.title # SavedPrompt.title
    /\ Loaded.tags # <<>>
    /\ \E i \in DOMAIN SavedTags :
          TagIds(db, SavedTags[i][2][1], SavedTags[i][1]) = {}

\* C5: every association row references a stored prompt and a stored tag,
\* and after delete(id) no association row has prompt id.
C5_NoDanglingAssociation ==
    /\ \A e \in BagToSet(db.prompt_tags) :
          e[1] \in DOMAIN db.prompts /\ e[2] \in DOMAIN db.tags
    /\ (last.op = "delete" =>
          \A e \in BagToSet(db.prompt_tags) : e[1] # last.id)

\* a tagged prompt was deleted while another tagged prompt stays
C5_Witness ==
    /\ last.op = "delete" /\ last.existed
    /\ BagToSet(db.prompt_tags) # {}
    /\ \E t \in DOMAIN db.tags : \A e \in BagToSet(db.prompt_tags) : e[2] # t

\* C6: no two tag rows have the same (name, category), and no (prompt, tag)
\* pair has two association rows.
C6_TagsUnique ==
    /\ \A i, j \in DOMAIN db.tags :
          (db.tags[i].name = db.tags[j].name
             /\ db.tags[i].category = db.tags[j].category) => i = j
    /\ \A e \in BagToSet(db.prompt_tags) : CopiesIn(e, db.prompt_tags) = 1

\* two prompts are linked to one tag row, next to a tag row of the same name
\* in another category
C6_Witness ==
    /\ \E t \in DOMAIN db.tags : \E p, q \in DOMAIN db.prompts :
          /\ p # q
          /\ BagIn(<<p, t>>, db.prompt_tags)
          /\ BagIn(<<q, t>>, db.prompt_tags)
    /\ \E i, j \in DOMAIN db.tags :
          /\ db.tags[i].name = db.tags[j].name
          /\ db.tags[i].category # db.tags[j].category

\* C7: duplicate(i) of a stored prompt returns an id j that was not stored;
\* afterwards the store holds the prompts it held and j, and load_by_id(j)
\* has the original's title followed by " (Copy)", is_favorite false, the
\* original's tag map, the original's other text fields, and created_at =
\* last_modified = the store's current time.
C7_Duplicate ==
    [][(IsCall /\ last'.op = "duplicate" /\ last'.existed) =>
         LET original == get_by_id(db, last'.id)
             copy == get_by_id(db', last'.new_id)
         IN /\ last'.ret = "id"
            /\ last'.new_id # last'.id
            /\ last'.new_id \notin DOMAIN db.prompts
            /\ DOMAIN db'.prompts = DOMAIN db.prompts \cup {last'.new_id}
            /\ copy.id = last'.new_id
            /\ copy.title = original.title \o " (Copy)"
            /\ copy.is_favorite = 0
            /\ copy.tags = original.tags
            /\ \A f \in TextFields \ {"title"} : copy[f] = original[f]
            /\ copy.created_at = clock' /\ copy.last_modified = clock']_vars

\* a favorite with tags in two categories was duplicated at a later second
\* than it was created
C7_Witness ==
    /\ last.op = "duplicate" /\ last.ret = "id"
    /\ Loaded.is_favorite = 1
    /\ Len(Loaded.tags) = 2
    /\ Loaded.created_at < get_by_id(db, last.new_id).created_at
    /\ get_by_id(db, last.new_id).tags = Loaded.tags

\* C8: after delete(id), load_by_id(id) is absent and load_all has no record
\* with that id; a second delete(id) does not raise and leaves the store as
\* the first left it.
C8_DeletePermanent ==
    /\ [](last.op = "delete" =>
            /\ get_by_id(db, last.id) = None
            /\ \A r \in get_all(db) : r.id # last.id)
    /\ [][(IsCall /\ last.op = "delete" /\ last'.op = "delete"
             /\ last'.id = last.id)
            => (db' = db /\ last'.ret = "True")]_vars

\* a delete was repeated after the first one removed the stored prompt and
\* its tags' associations
C8_Witness ==
    /\ last.op = "delete" /\ last.again
    /\ calls = 2
    /\ db.tags # <<>>
    /\ DOMAIN db.prompts = {}
    /\ BagToSet(db.prompt_tags) = {}

\* C9 as the spec states it: delete(id) of an id that is not stored returns
\* the "not found" result, which is not the result of a delete that removed
\* a prompt.
C9_DeleteReportsNotFound ==
    (last.op = "delete" /\ ~last.existed) => last.ret = "False"

\* C10: load_by_id of an id that is not stored is absent; duplicate of an
\* id that is not stored returns absent and leaves the store unchanged.
C10_NotFound ==
    /\ [](\A id \in Ids \ DOMAIN db.prompts : get_by_id(db, id) = None)
    /\ [][(IsCall /\ last'.op = "duplicate"
             /\ last'.id \notin DOMAIN db.prompts)
            => (last'.ret = "None" /\ last'.new_id = 0 /\ db' = db)]_vars

\* duplicate was called with an id that is not stored while another prompt,
\* with tags, is
C10_Witness ==
    /\ last.op = "duplicate" /\ ~last.existed
    /\ last.ret = "None"
    /\ last.id \notin DOMAIN db.prompts
    /\ BagToSet(db.prompt_tags) # {}

\* C11: toggle_favorite(id, v) on a stored id leaves every stored prompt, the
\* tag rows and the associations as they were except for the favorite flag of
\* id; when v is the flag stored, the flag afterwards is its negation; when
\* the call before was a toggle of the same id that was given the flag then
\* stored, this second toggle given the current flag restores the flag stored
\* before the first; on an id that is not stored the store is left as it was.
ToggledOnlyFlag ==
    LET id == last'.id
    IN /\ DOMAIN db'.prompts = DOMAIN db.prompts
       /\ db'.prompts =
              [db.prompts EXCEPT ![id].is_favorite = db'.prompts[id].is_favorite]
       /\ db'.tags = db.tags /\ db'.prompt_tags = db.prompt_tags
       /\ get_by_id(db', id).tags = get_by_id(db, id).tags
       /\ \A q \in DOMAIN db.prompts \ {id} :
              get_by_id(db', q) = get_by_id(db, q)

C11_ToggleFavorite ==
    [][IsCall /\ last'.op = "toggle_favorite" =>
         LET id == last'.id
             v == last'.current_status
         IN IF ~Exists(db, id) THEN db' = db
            ELSE /\ ToggledOnlyFlag
                 /\ v = db.prompts[id].is_favorite =>
                        /\ db'.prompts[id].is_favorite = 1 - v
                        /\ get_by_id(db', id).is_favorite = 1 - v
                        /\ last'.again =>
                               db'.prompts[id].is_favorite = last.was_favorite]_vars

\* two toggles of the favorite, tagged prompt, each given the flag stored at
\* the time: it is a favorite again, and nothing else of it has changed
C11_Witness ==
    /\ last.op = "toggle_favorite" /\ last.again
    /\ last.current_status = last.was_favorite
    /\ last.was_favorite = 0 /\ Loaded.is_favorite = 1
    /\ Loaded.tags # <<>>
    /\ Loaded.created_at = 1 /\ Loaded.last_modified = 1

\* the fields of a prompt other than its id and its tag map
ValueFields == Range(PromptFields) \ {"id", "tags"}

\* the assignments of the imported prompts to the exported ones
Matchings(n) ==
    {f \in [1 .. n -> DOMAIN db.prompts] :
        \A i, j \in 1 .. n : f[i] = f[j] => i = j}

\* C12: importing the text produced by export() into an empty store yields
\* the same number of prompts, and each imported prompt has field values
\* identical to its exported original (title, prompt_type, metadata, content
\* fields, is_favorite, created_at, last_modified, tag map), differing only
\* in id.
C12_RoundTripIdentical ==
    last.op = "round_trip" =>
        LET n == Len(last.prompt)
        IN /\ last.ret = "count" /\ last.count = n
           /\ Cardinality(DOMAIN db.prompts) = n
           /\ \E f \in Matchings(n) :
                 \A i \in 1 .. n :
                    LET imported == get_by_id(db, f[i])
                        original == last.prompt[i]
                    IN /\ \A c \in ValueFields : imported[c] = original[c]
                       /\ TagMapEq(imported.tags, original.tags)

\* the document handed to the import made last
ImportedDoc == last.doc[1]

\* C13: if import(text) fails, because the text does not parse or because
\* some record of the document is invalid, the store afterwards equals the
\* store before the call.
C13_ImportAllOrNothing ==
    [][IsCall /\ last'.op = "import" /\ last'.ret # "count" => db' = db]_vars

\* a document whose every item is a mapping with a title, no tag list naming
\* a value twice
ValidDocument(doc) ==
    /\ doc.parses
    /\ \A i \in 1 .. Len(doc.items) :
          /\ doc.items[i].kind = "record"
          /\ \A e \in Range(doc.items[i].tags) :
                \A a, b \in 1 .. Len(e[2]) : e[2][a] = e[2][b] => a = b

\* C14: for a valid document of n records, import returns n, the store holds
\* exactly n more prompts afterwards, each under an id that was not stored,
\* and every prompt stored before is unchanged in its fields and tags,
\* whatever ids the records of the document carry.
C14_ImportAddsFresh ==
    [][IsCall /\ last'.op = "import" /\ ValidDocument(last'.doc[1]) =>
         LET n == Len(last'.doc[1].items)
         IN /\ last'.ret = "count" /\ last'.count = n
            /\ DOMAIN db.prompts \subseteq DOMAIN db'.prompts
            /\ Cardinality(DOMAIN db'.prompts) =
                   Cardinality(DOMAIN db.prompts) + n
            /\ \A q \in DOMAIN db.prompts :
                   get_by_id(db', q) = get_by_id(db, q)]_vars

\* a record carrying the id of a stored prompt has been imported: the stored
\* prompt is as it was (a favorite, its tags, created at second 1) and the
\* record is stored beside it
C14_Witness ==
    /\ last.op = "import" /\ last.ret = "count" /\ last.count = 1
    /\ ImportedDoc.items[1].p.id = 1
    /\ DOMAIN db.prompts = {1, 2}
    /\ get_by_id(db, 1).title = "Summary" /\ get_by_id(db, 1).is_favorite = 1
    /\ get_by_id(db, 1).tags # <<>>
    /\ get_by_id(db, 2).title = "Summary" /\ get_by_id(db, 2).is_favorite = 0

\* the names stored under a category
StoredNames(category) ==
    {db.tags[i].name : i \in {j \in 1 .. Len(db.tags) :
                                 db.tags[j].category = category}}

\* C15: the tag options have exactly the registry's categories as keys; the
\* list of a category holds exactly the registry's values and the stored
\* names of the category, none twice; every list other than Complexity is
\* in ascending order; the Complexity list starts with the registry's five
\* values in the registry's order, stored extras after them.
C15_TagOptions ==
    last.op = "get_all_tags_by_category" =>
        LET options == last.tags[1]
        IN /\ Len(options) = Len(TAG_CATEGORIES)
           /\ \A i \in 1 .. Len(TAG_CATEGORIES) :
                 LET category == TAG_CATEGORIES[i][1]
                     registry == TAG_CATEGORIES[i][2]
                     list == options[i][2]
                 IN /\ options[i][1] = category
                    /\ Range(list) = Range(registry) \cup StoredNames(category)
                    /\ Cardinality(Range(list)) = Len(list)
                    /\ category # "Complexity" =>
                          \A a, b \in 1 .. Len(list) :
                             a < b => StrLess(list[a], list[b])
                    /\ category = "Complexity" =>
                          SubSeq(list, 1, Len(registry)) = registry

\* the options were read from a store that holds two extra Complexity
\* values, extra Model Family values and a category of its own
C15_Witness ==
    /\ last.op = "get_all_tags_by_category"
    /\ StoredNames("Team") # {}
    /\ {"trivial", "brutal"} \subseteq StoredNames("Complexity")
    /\ Get(last.tags[1], "Complexity") =
          <<"basic", "simple", "intermediate", "advanced", "expert",
            "brutal", "trivial">>
    /\ Get(last.tags[1], "Model Family") =
          <<"Claude", "DeepSeek", "Falcon", "GLM", "Gemini", "claude">>

\* the last step rendered the library page
Rendered == last.op = "render_library_page"

\* the tag filter with the selections of all categories but the i-th emptied
OnlyCategory(selected_tags, i) ==
    [j \in 1 .. Len(selected_tags) |->
        IF j = i THEN selected_tags[j] ELSE <<selected_tags[j][1], <<>>>>]

\* C16: the tag stage keeps a prompt exactly when, for every category with a
\* non-empty selection, the prompt's values under the category include all
\* selected values; the result of a filter on several categories is the
\* intersection of the results of the filter of each category alone; and
\* categories with an empty selection filter nothing.
C16_TagStage ==
    Rendered =>
        LET given == last.favorites
            sel == last.selected_tags
        IN /\ last.tagged =
                 SelectSeq(given,
                   LAMBDA p : \A i \in 1 .. Len(sel) :
                      sel[i][2] # <<>> =>
                         Range(sel[i][2]) \subseteq
                            Range(Get(p.tags, sel[i][1])))
           /\ \A p \in Range(given) :
                 p \in Range(last.tagged) <=>
                    \A i \in 1 .. Len(sel) :
                       p \in Range(TagStage(given, OnlyCategory(sel, i)))
           /\ TagStage(given, WithoutEmpty(sel)) = last.tagged
           /\ (\A i \in 1 .. Len(sel) : sel[i][2] = <<>>) =>
                 last.tagged = given

\* a filter on two categories was applied to two prompts that both pass the
\* Complexity selection; the one that also passes the Audience selection is
\* kept
C16_Witness ==
    /\ Rendered
    /\ last.selected_tags = TagFilter(<<>>, <<"expert">>, <<"basic">>)
    /\ Len(last.favorites) = 2
    /\ last.favorites[1].id = "p2" /\ last.favorites[2].id = "p4"
    /\ Len(last.tagged) = 1 /\ last.tagged[1].id = "p4"

\* a query of no characters or of whitespace only
Blank(search_query) ==
    \A i \in 1 .. Len(search_query) : CharAt(search_query, i) = " "

SearchedFields == {"title", "use_case", "description", "instructions",
                   "task", "persona", "context"}

\* C17: a query that is empty or consists only of whitespace disables the
\* search stage; otherwise a prompt is kept exactly when the query, compared
\* case-insensitively, occurs in at least one of title, use_case,
\* description, instructions, task, persona, context.
C17_SearchStage ==
    Rendered =>
        IF Blank(last.search_query) THEN last.found = last.tagged
        ELSE last.found =
               SelectSeq(last.tagged,
                 LAMBDA p : \E f \in SearchedFields :
                    Contains(Lower(p[f]), Lower(last.search_query)))

\* no two prompts of the list have the same title; the same lower-cased title
DistinctTitles(prompts) ==
    \A i, j \in 1 .. Len(prompts) :
        prompts[i].title = prompts[j].title => i = j
DistinctIgnoringCase(prompts) ==
    \A i, j \in 1 .. Len(prompts) :
        Lower(prompts[i].title) = Lower(prompts[j].title) => i = j

\* C18 as the spec states it: on prompts whose titles are pairwise distinct
\* strings the order of "Title (Z-A)" is the reverse of the order of
\* "Title (A-Z)" on the same input.
C18_ReverseOfAZ ==
    Rendered /\ last.sort_option = "Title (Z-A)"
             /\ DistinctTitles(last.found) =>
        last.ret = Reverse(SortTitleAZ(last.found))

\* C18: on prompts whose titles are pairwise distinct when compared without
\* regard to case, the order of "Title (Z-A)" is the reverse of the order of
\* "Title (A-Z)" on the same input.
C18_ReverseOfAZIgnoringCase ==
    Rendered /\ last.sort_option = "Title (Z-A)"
             /\ DistinctIgnoringCase(last.found) =>
        last.ret = Reverse(SortTitleAZ(last.found))

\* "B" and "a" came in that order from the store and are shown as "B", "a"
\* by "Title (Z-A)"
C18_Witness ==
    /\ Rendered /\ last.sort_option = "Title (Z-A)"
    /\ Len(last.found) = 2
    /\ last.found[1].title = "B" /\ last.found[2].title = "a"
    /\ last.ret = last.found
    /\ SortTitleAZ(last.found) = Reverse(last.found)

\* the structured fields in the order of the sections, with their headers
SectionFields ==
    << <<"persona", "### PERSONA">>, <<"context", "### CONTEXT">>,
       <<"task", "### TASK">>, <<"style", "### STYLE">>,
       <<"variables", "### VARIABLES">> >>

\* The text of the first n sections: a field that is empty adds nothing; one
\* that is not adds its header line and its text, after the separator when
\* an earlier field was not empty.
RECURSIVE SectionsUpTo(_, _)
SectionsUpTo(p, n) ==
    IF n = 0 THEN ""
    ELSE LET field == p[SectionFields[n][1]]
             before == SectionsUpTo(p, n - 1)
         IN IF field = "" THEN before
            ELSE before \o (IF before = "" THEN "" ELSE "\n\n---\n\n")
                        \o SectionFields[n][2] \o "\n" \o field

\* C19: the copy text of a standard prompt is its instructions, whatever the
\* structured fields hold; that of a structured prompt is the sections of
\* exactly its non-empty fields among persona, context, task, style,
\* variables, in that order, each its header line and the field's text,
\* joined by the separator; with all five empty it is the empty string.
C19_CopyText ==
    last.op = "get_copy_text" =>
        LET p == last.prompt
        IN /\ p.prompt_type = "standard" => last.ret = p.instructions
           /\ p.prompt_type = "structured" =>
                 /\ last.ret = SectionsUpTo(p, Len(SectionFields))
                 /\ (\A i \in 1 .. Len(SectionFields) : p[SectionFields[i][1]] = "") =>
                       last.ret = ""
                 /\ \A i \in 1 .. Len(SectionFields) :
                       Contains(last.ret, SectionFields[i][2]) <=>
                          p[SectionFields[i][1]] # ""

\* a structured prompt with persona, task and variables and without context
\* and style was rendered, its instructions (not shown) holding a text
C19_Witness ==
    /\ last.op = "get_copy_text"
    /\ last.prompt.prompt_type = "structured"
    /\ last.prompt.instructions # ""
    /\ last.prompt.context = "" /\ last.prompt.style = ""
    /\ last.ret = "### PERSONA\nan editor\n\n---\n\n"
                     \o "### TASK\nSummarize the document\n\n---\n\n"
                     \o "### VARIABLES\n{DOC}"

\* C20: a prompt saved through the edit form has at most one tag value in
\* each of the single-value categories Complexity, Abstraction Level and
\* Status: neither the tags the form hands to save nor the tags stored for
\* the prompt afterwards hold two values of such a category.
C20_SingleValue ==
    last.op = "edit" /\ last.ret = "saved" =>
        \A c \in SINGLE_VALUE_CATEGORIES :
            /\ Len(Get(last.tags[1], c)) <= 1
            /\ Len(Get(Loaded.tags, c)) <= 1

\* this step is a save, by a caller or by the edit form, that returned
SaveStep ==
    /\ IsCall
    /\ \/ last'.op = "save" /\ last'.ret = "None"
       \/ last'.op = "edit" /\ last'.ret = "saved"

\* C21: a save on an id that is stored leaves the stored favorite flag as it
\* was, whatever flag the record carries; a save on a new id stores the flag
\* 0; and a call that changes the flag of a prompt stored before and after
\* it is a toggle_favorite of that prompt.
C21_FavoriteKept ==
    [][/\ SaveStep /\ last'.existed =>
            get_by_id(db', last'.id).is_favorite =
               get_by_id(db, last'.id).is_favorite
       /\ SaveStep /\ ~last'.existed =>
            get_by_id(db', last'.id).is_favorite = 0
       /\ \A id \in DOMAIN db.prompts \cap DOMAIN db'.prompts :
            db'.prompts[id].is_favorite # db.prompts[id].is_favorite =>
               last'.op = "toggle_favorite" /\ last'.id = id]_vars

\* the favorite prompt was edited through the form, which builds its record
\* without the flag, and is a favorite still, under its new title
C21_Witness ==
    /\ last.op = "edit" /\ last.ret = "saved" /\ last.existed
    /\ last.was_favorite = 1 /\ SavedPrompt.is_favorite = 0
    /\ Loaded.is_favorite = 1 /\ Loaded.title = "Plan"

\* C22: a save, a delete or a toggle_favorite of prompt p, and a duplicate of
\* p, leave every other stored prompt q as load_by_id(q) returned it before,
\* fields and tag map; a duplicate leaves p itself so too.
C22_Isolation ==
    [][IsCall /\ last'.op \in {"save", "delete", "toggle_favorite",
                                "duplicate"} =>
         /\ \A q \in DOMAIN db.prompts \ {last'.id} :
               /\ q \in DOMAIN db'.prompts
               /\ get_by_id(db', q) = get_by_id(db, q)
         /\ last'.op = "duplicate" /\ last'.existed =>
               get_by_id(db', last'.id) = get_by_id(db, last'.id)]_vars

\* prompt 2, which shares a tag row with prompt 1, was made a favorite;
\* prompt 1 is the tagged favorite of second 1 it was
C22_Witness ==
    /\ last.op = "toggle_favorite" /\ last.existed /\ last.id = 2
    /\ Loaded.is_favorite = 1
    /\ \E t \in 1 .. Len(db.tags) :
          {<<1, t>>, <<2, t>>} \subseteq BagToSet(db.prompt_tags)
    /\ get_by_id(db, 1).is_favorite = 1
    /\ get_by_id(db, 1).title = "Summary"
    /\ get_by_id(db, 1).last_modified = 1

====
